---- MODULE Spec2Model ----
(***************************************************************************)
(* quippy: the value model (src/src/types.rs, QType and the object key     *)
(* codec) and the variable environment (src/src/interp.rs, QInterp).       *)
(*                                                                         *)
(* Representation.                                                         *)
(*   - A QType value is a record [kind, val].  A String is the sequence of *)
(*     its characters, a Vec the sequence of its elements (position i of   *)
(*     the Vec is index i+1 of the sequence), a QObject (HashMap<String,   *)
(*     QType>) a function from key strings to values.                      *)
(*   - i64 is two's complement of IntBits bits instead of 64: MinInt and   *)
(*     MaxInt stand for i64::MIN and i64::MAX, and the wrapping operations *)
(*     wrap at that width.                                                 *)
(*   - A finite f64 is the exact rational <<n, d>> (d > 0, lowest terms);  *)
(*     <<1,0>>, <<-1,0>> and <<0,0>> are +inf, -inf and NaN.  Rounding of  *)
(*     inexact results and the sign of zero are not represented.           *)
(*   - A panic (panic!, unreachable!, todo!, unwrap on Err, a division by  *)
(*     zero) ends the call: the call's outcome is the pseudo-value Panic,  *)
(*     which is not a QType.                                               *)
(***************************************************************************)
EXTENDS Integers, Sequences, FiniteSets, TLC

VARIABLES
    globals,    \* QInterp.globals : QObject
    locals,     \* QInterp.locals  : Vec<QObject>
    fault,      \* TRUE once a QInterp method has panicked
    lastStored, \* history: per name, the value of the latest store_global
    fn,         \* name of the last function called ("none" before any call)
    args,       \* the arguments of the call (of the first call of a chain)
    mid,        \* in a chain of two calls, what the first call returned
    ret         \* what the last call returned (Panic when it panicked)

vars == <<globals, locals, fault, lastStored, fn, args, mid, ret>>

----------------------------------------------------------------------------
(* Bounds of the model *)

IntBits == 8
MaxLen == 2
MaxStrLen == 2
MaxNames == 2
MaxThread == 1

----------------------------------------------------------------------------
(* i64 at the model's width *)

RECURSIVE Pow2(_)
Pow2(n) == IF n = 0 THEN 1 ELSE 2 * Pow2(n - 1)

MinInt == -Pow2(IntBits - 1)
MaxInt == Pow2(IntBits - 1) - 1
Ints == MinInt..MaxInt

Abs(x) == IF x < 0 THEN -x ELSE x

\* two's complement wrap of a mathematical integer into the width
Wrap(x) == ((x - MinInt) % Pow2(IntBits)) + MinInt

\* integer division truncating toward zero, as Rust's / on integers (r # 0)
TruncDiv(l, r) ==
    LET q == Abs(l) \div Abs(r)
    IN  IF (l < 0) = (r < 0) THEN q ELSE -q

TruncRem(l, r) == l - r * TruncDiv(l, r)

\* the unsigned bit pattern of x and back
ToBits(x) == x % Pow2(IntBits)
FromBits(u) == IF u > MaxInt THEN u - Pow2(IntBits) ELSE u

RECURSIVE BitOp(_, _, _, _)
BitOp(f, a, b, n) ==
    IF n = 0 THEN 0
    ELSE 2 * BitOp(f, a \div 2, b \div 2, n - 1)
         + (CASE f = "and" -> IF a % 2 = 1 /\ b % 2 = 1 THEN 1 ELSE 0
              [] f = "or"  -> IF a % 2 = 1 \/ b % 2 = 1 THEN 1 ELSE 0
              [] f = "xor" -> IF a % 2 # b % 2 THEN 1 ELSE 0)

Bitwise(f, l, r) == FromBits(BitOp(f, ToBits(l), ToBits(r), IntBits))

----------------------------------------------------------------------------
(* The values: enum QType *)

IntV(i)   == [kind |-> "Int",    val |-> i]
Float(f)  == [kind |-> "Float",  val |-> f]
Bool(b)   == [kind |-> "Bool",   val |-> b]
Str(s)    == [kind |-> "Str",    val |-> s]
Void      == [kind |-> "Void",   val |-> <<>>]
Err       == [kind |-> "Err",    val |-> <<>>]
List(l)   == [kind |-> "List",   val |-> l]
Obj(o)    == [kind |-> "Obj",    val |-> o]
Thread(t) == [kind |-> "Thread", val |-> t]   \* <<>> is None, <<n>> is Some(n)
Func(o)   == [kind |-> "Func",   val |-> o]

Kinds == {"Int", "Float", "Bool", "Str", "Void", "Err", "List", "Obj",
          "Thread", "Func"}

\* the outcome of a call that panicked
Panic == [kind |-> "Panic", val |-> <<>>]

\* Option<T>
None == <<>>
Some(v) == <<v>>

\* QObject::new() and the HashMap operations used
EmptyObj == [k \in {} |-> Void]
Keys(o) == DOMAIN o
Insert(o, k, v) == [x \in (DOMAIN o) \cup {k} |-> IF x = k THEN v ELSE o[x]]
Get(o, k) == IF k \in DOMAIN o THEN Some(o[k]) ELSE None
\* an extend that keeps the entry already present
Extend_keep(l, r) ==
    [x \in (DOMAIN l) \cup (DOMAIN r) |-> IF x \in DOMAIN l THEN l[x] ELSE r[x]]

\* HashMap::extend: every entry of r is inserted, replacing an equal key
Extend(l, r) ==
    [x \in (DOMAIN l) \cup (DOMAIN r) |-> IF x \in DOMAIN r THEN r[x] ELSE l[x]]

----------------------------------------------------------------------------
(* Text: integer formatting and parsing *)

DigitChars == <<"0", "1", "2", "3", "4", "5", "6", "7", "8", "9">>
IsDigit(c) == \E d \in 1..10 : DigitChars[d] = c
DigitVal(c) == (CHOOSE d \in 1..10 : DigitChars[d] = c) - 1

RECURSIVE NatText(_)
NatText(n) ==
    IF n < 10 THEN <<DigitChars[n + 1]>>
    ELSE NatText(n \div 10) \o <<DigitChars[(n % 10) + 1]>>

\* i64's Display: i.to_string(), format!("{i}")
IntText(i) == IF i < 0 THEN <<"-">> \o NatText(-i) ELSE NatText(i)

RECURSIVE DigitsValue(_)
DigitsValue(s) ==
    IF Len(s) = 0 THEN 0
    ELSE 10 * DigitsValue(SubSeq(s, 1, Len(s) - 1)) + DigitVal(s[Len(s)])

AllDigits(s) == \A k \in 1..Len(s) : IsDigit(s[k])

\* str::parse::<i64>: None is Err(_), Some(i) is Ok(i)
ParseI64(s) ==
    LET signed == Len(s) > 0 /\ s[1] \in {"+", "-"}
        digits == IF signed THEN Tail(s) ELSE s
        m      == DigitsValue(digits)
        v      == IF Len(s) > 0 /\ s[1] = "-" THEN -m ELSE m
    IN  IF Len(digits) = 0 \/ ~AllDigits(digits) THEN None
        ELSE IF v < MinInt \/ v > MaxInt THEN None
        ELSE Some(v)

----------------------------------------------------------------------------
(* The object key codec *)

from_qobj_key(k) ==
    IF Len(k) > 0 /\ k[1] = "$"
    THEN Str(SubSeq(k, 2, Len(k)))
    ELSE LET p == ParseI64(k)
         IN  IF p = None THEN Panic ELSE IntV(p[1])

\* a to_qobj_key that writes a string key without the sigil
to_qobj_key_plain(k) ==
    CASE k.kind = "Int" -> [ok |-> TRUE, key |-> IntText(k.val)]
      [] k.kind = "Str" -> [ok |-> TRUE, key |-> k.val]
      [] OTHER          -> [ok |-> FALSE, key |-> <<>>]

\* [ok |-> TRUE, key |-> the String] or, when it panics, [ok |-> FALSE]
to_qobj_key(k) ==
    CASE k.kind = "Int" -> [ok |-> TRUE, key |-> IntText(k.val)]
      [] k.kind = "Str" -> [ok |-> TRUE, key |-> <<"$">> \o k.val]
      [] OTHER          -> [ok |-> FALSE, key |-> <<>>]

----------------------------------------------------------------------------
(* f64 as exact rationals *)

NaN == <<0, 0>>
Inf == <<1, 0>>
NegInf == <<-1, 0>>
Zero == <<0, 1>>

Sign(x) == IF x < 0 THEN -1 ELSE IF x > 0 THEN 1 ELSE 0

RECURSIVE GCD(_, _)
GCD(a, b) == IF b = 0 THEN a ELSE GCD(b, a % b)

\* the rational n/d (d # 0) in lowest terms with a positive denominator
Norm(n, d) ==
    LET g == GCD(Abs(n), Abs(d))
    IN  <<Sign(d) * (n \div g), Abs(d) \div g>>

IsFinite(f) == f[2] # 0
SignInf(sg) == IF sg < 0 THEN NegInf ELSE Inf

FNeg(f) == <<-f[1], f[2]>>

FAdd(l, r) ==
    IF l = NaN \/ r = NaN THEN NaN
    ELSE IF ~IsFinite(l) THEN (IF ~IsFinite(r) /\ r # l THEN NaN ELSE l)
    ELSE IF ~IsFinite(r) THEN r
    ELSE Norm(l[1] * r[2] + r[1] * l[2], l[2] * r[2])

FSub(l, r) == FAdd(l, FNeg(r))

FMul(l, r) ==
    IF l = NaN \/ r = NaN THEN NaN
    ELSE IF ~IsFinite(l) \/ ~IsFinite(r)
         THEN (IF l[1] = 0 \/ r[1] = 0 THEN NaN ELSE SignInf(l[1] * r[1]))
    ELSE Norm(l[1] * r[1], l[2] * r[2])

FDiv(l, r) ==
    IF l = NaN \/ r = NaN THEN NaN
    ELSE IF ~IsFinite(l) THEN (IF ~IsFinite(r) THEN NaN
                               ELSE IF r[1] < 0 THEN FNeg(l) ELSE l)
    ELSE IF ~IsFinite(r) THEN Zero
    ELSE IF r[1] = 0 THEN (IF l[1] = 0 THEN NaN ELSE SignInf(l[1]))
    ELSE Norm(l[1] * r[2], l[2] * r[1])

\* the integer part of a finite f, toward zero
FTrunc(f) == TruncDiv(f[1], f[2])

\* f64's %: the remainder of the division truncated toward zero
FRem(l, r) ==
    IF l = NaN \/ r = NaN \/ ~IsFinite(l) THEN NaN
    ELSE IF ~IsFinite(r) THEN l
    ELSE IF r[1] = 0 THEN NaN
    ELSE FSub(l, FMul(r, <<FTrunc(FDiv(l, r)), 1>>))

\* f64's ==
FEq(l, r) == l # NaN /\ l = r

\* `f as i64`: NaN is 0, out of range saturates, else truncation
FloatAsInt(f) ==
    IF f = NaN THEN 0
    ELSE IF f = Inf THEN MaxInt
    ELSE IF f = NegInf THEN MinInt
    ELSE LET t == FTrunc(f)
         IN  IF t > MaxInt THEN MaxInt ELSE IF t < MinInt THEN MinInt ELSE t

\* the digits after the point of r/d (0 <= r < d), at most k of them
RECURSIVE FracDigits(_, _, _)
FracDigits(r, d, k) ==
    IF r = 0 \/ k = 0 THEN <<>>
    ELSE <<DigitChars[((10 * r) \div d) + 1]>> \o FracDigits((10 * r) % d, d, k - 1)

\* the longest fraction f64's Display prints
MaxFracDigits == 17

\* f64's Display (f.to_string()): a fraction that does not end is cut
FloatText(f) ==
    IF f = NaN THEN <<"N", "a", "N">>
    ELSE IF f = Inf THEN <<"i", "n", "f">>
    ELSE IF f = NegInf THEN <<"-", "i", "n", "f">>
    ELSE LET a == Abs(f[1])
             whole == NatText(a \div f[2])
             frac == FracDigits(a % f[2], f[2], MaxFracDigits)
         IN  (IF f[1] < 0 THEN <<"-">> ELSE <<>>) \o whole
             \o (IF frac = <<>> THEN <<>> ELSE <<".">> \o frac)

RECURSIVE Pow10(_)
Pow10(n) == IF n = 0 THEN 1 ELSE 10 * Pow10(n - 1)

\* str::parse::<f64> on text without exponent, "inf" or "nan" spellings:
\* [sign] digits [. digits] with at least one digit.  None is Err(_).
ParseF64(s) ==
    LET signed == Len(s) > 0 /\ s[1] \in {"+", "-"}
        body == IF signed THEN Tail(s) ELSE s
        dots == {k \in 1..Len(body) : body[k] = "."}
        dot == IF dots = {} THEN Len(body) + 1 ELSE CHOOSE k \in dots : TRUE
        whole == SubSeq(body, 1, dot - 1)
        frac == SubSeq(body, dot + 1, Len(body))
        m == Norm(DigitsValue(whole \o frac), Pow10(Len(frac)))
    IN  IF Cardinality(dots) > 1 \/ Len(whole) + Len(frac) = 0 THEN None
        ELSE IF ~AllDigits(whole) \/ ~AllDigits(frac) THEN None
        ELSE Some(IF Len(s) > 0 /\ s[1] = "-" THEN FNeg(m) ELSE m)

----------------------------------------------------------------------------
(* Bytes of the characters of the model (ASCII) *)

CharCodes ==
    << <<" ", 32>>, <<"\"", 34>>, <<"$", 36>>, <<"(", 40>>, <<")", 41>>,
       <<"+", 43>>, <<"-", 45>>, <<".", 46>>, <<"0", 48>>, <<"1", 49>>,
       <<"2", 50>>, <<"3", 51>>, <<"4", 52>>, <<"5", 53>>, <<"6", 54>>,
       <<"7", 55>>, <<"8", 56>>, <<"9", 57>>, <<":", 58>>, <<"=", 61>>,
       <<">", 62>>, <<"@", 64>>, <<"N", 78>>, <<"[", 91>>, <<"\\", 92>>,
       <<"]", 93>>, <<"a", 97>>, <<"b", 98>>, <<"c", 99>>, <<"d", 100>>,
       <<"e", 101>>, <<"f", 102>>, <<"h", 104>>, <<"i", 105>>, <<"l", 108>>,
       <<"n", 110>>, <<"r", 114>>, <<"s", 115>>, <<"t", 116>>, <<"u", 117>>,
       <<"{", 123>>, <<"}", 125>> >>

ByteOf(c) == CharCodes[CHOOSE i \in 1..Len(CharCodes) : CharCodes[i][1] = c][2]

\* s.bytes().map(|b| Int(b as i64))
Bytes(s) == [i \in 1..Len(s) |-> IntV(ByteOf(s[i]))]

----------------------------------------------------------------------------
(* Coercion: like, into and the to_* conversions.  A HashMap is iterated in *)
(* an order the program does not fix, so a conversion that iterates one    *)
(* (to_list and to_str of an Obj) has several possible results: to_list,   *)
(* to_str and into give the SET of values the call can return.             *)

\* a like without the arms of Func and Thread
like_data_kinds(lhs, rhs) ==
    IF lhs.kind = rhs.kind /\ lhs.kind \notin {"Func", "Thread"}
    THEN Bool(TRUE)
    ELSE Bool(FALSE)

like(lhs, rhs) ==
    CASE lhs.kind = "Void"   /\ rhs.kind = "Void"   -> Bool(TRUE)
      [] lhs.kind = "Err"    /\ rhs.kind = "Err"    -> Bool(TRUE)
      [] lhs.kind = "Int"    /\ rhs.kind = "Int"    -> Bool(TRUE)
      [] lhs.kind = "Float"  /\ rhs.kind = "Float"  -> Bool(TRUE)
      [] lhs.kind = "Bool"   /\ rhs.kind = "Bool"   -> Bool(TRUE)
      [] lhs.kind = "Str"    /\ rhs.kind = "Str"    -> Bool(TRUE)
      [] lhs.kind = "List"   /\ rhs.kind = "List"   -> Bool(TRUE)
      [] lhs.kind = "Obj"    /\ rhs.kind = "Obj"    -> Bool(TRUE)
      [] lhs.kind = "Func"   /\ rhs.kind = "Func"   -> Bool(TRUE)
      [] lhs.kind = "Thread" /\ rhs.kind = "Thread" -> Bool(TRUE)
      [] OTHER -> Bool(FALSE)

\* `b as i64`
BoolAsInt(b) == IF b THEN 1 ELSE 0

to_int(expr) ==
    CASE expr.kind = "Bool"  -> IntV(BoolAsInt(expr.val))
      [] expr.kind = "Float" -> IntV(FloatAsInt(expr.val))
      [] expr.kind = "Str"   ->
            LET p == ParseI64(expr.val)
            IN  IF p # None THEN IntV(p[1]) ELSE Err
      [] OTHER -> Err

to_float(expr) ==
    CASE expr.kind = "Bool" -> Float(<<BoolAsInt(expr.val), 1>>)
      [] expr.kind = "Int"  -> Float(<<expr.val, 1>>)
      [] expr.kind = "Str"  ->
            LET p == ParseF64(expr.val)
            IN  IF p # None THEN Float(p[1]) ELSE Err
      [] OTHER -> Err

to_bool(expr) ==
    CASE expr.kind = "Int"   -> Bool(expr.val # 0)
      [] expr.kind = "Float" -> Bool(~FEq(expr.val, Zero))
      [] expr.kind = "Str"   -> Bool(Len(expr.val) # 0)
      [] expr.kind = "Void"  -> Bool(TRUE)
      [] expr.kind = "Err"   -> Bool(FALSE)
      [] expr.kind = "List"  -> Bool(Len(expr.val) # 0)
      [] expr.kind = "Obj"   -> Bool(Cardinality(Keys(expr.val)) # 0)
      [] OTHER -> Err

\* the orders in which a HashMap with key set S can be iterated
Orders(S) ==
    {f \in [1..Cardinality(S) -> S] :
        \A i, j \in 1..Cardinality(S) : i # j => f[i] # f[j]}

to_list(expr) ==
    CASE expr.kind = "Str" -> {List(Bytes(expr.val))}
      [] expr.kind = "Obj" ->
            IF \E k \in Keys(expr.val) : from_qobj_key(k) = Panic
            THEN {Panic}
            ELSE {List([i \in 1..Len(ord) |-> from_qobj_key(ord[i])]) :
                    ord \in Orders(Keys(expr.val))}
      [] OTHER -> {Err}

\* (i as i64).to_string() of position i of a Vec (index i + 1 of the sequence)
IndexKey(i) == IntText(i)

\* an enumeration that counts from one
Enumerated_from_one(l) ==
    [k \in {IndexKey(i) : i \in 1..Len(l)} |->
        l[CHOOSE i \in 1..Len(l) : IndexKey(i) = k]]

\* .enumerate().map(|(i, e)| ((i as i64).to_string(), e)).collect()
Enumerated(l) ==
    [k \in {IndexKey(i - 1) : i \in 1..Len(l)} |->
        l[CHOOSE i \in 1..Len(l) : IndexKey(i - 1) = k]]

to_obj(expr) ==
    CASE expr.kind = "Str"  -> Obj(Enumerated(Bytes(expr.val)))
      [] expr.kind = "List" -> Obj(Enumerated(expr.val))
      [] OTHER -> Err

\* the texts made by taking one text of each parts[i], in order
RECURSIVE Concats(_)
Concats(parts) ==
    IF Len(parts) = 0 THEN {<<>>}
    ELSE {h \o t : h \in Head(parts), t \in Concats(Tail(parts))}

\* format!("\"{}\": {}", key, value) or format!("{}: {}", key, value)
EntryText(k, value) ==
    LET key == from_qobj_key(k)
    IN  IF key.kind = "Str"
        THEN <<"\"">> \o key.val \o <<"\"", ":", " ">> \o value
        ELSE IntText(key.val) \o <<":", " ">> \o value

RECURSIVE to_str(_)
to_str(expr) ==
    CASE expr.kind = "Int"   -> {Str(IntText(expr.val))}
      [] expr.kind = "Float" -> {Str(FloatText(expr.val))}
      [] expr.kind = "Bool"  ->
            {Str(IF expr.val THEN <<"t", "r", "u", "e">>
                 ELSE <<"f", "a", "l", "s", "e">>)}
      [] expr.kind = "Void"  -> {Str(<<"(", ")">>)}
      [] expr.kind = "Err"   -> {Str(<<"e", "r", "r">>)}
      [] expr.kind = "Func"  ->
            {Str(<<"\\", "(", ".", ".", ".", ")", " ", "=", ">", " ",
                   ".", ".", ".">>)}
      [] expr.kind = "Thread" ->
            IF expr.val = None THEN {Str(<<"@", "t", "h", "i", "s">>)}
            ELSE {Str(<<"@">> \o NatText(expr.val[1]))}
      [] expr.kind = "List" ->
            LET l == expr.val
                parts == [i \in 1..Len(l) |-> to_str(l[i])]
            IN  IF \E i \in 1..Len(l) : Panic \in parts[i]
                THEN {Panic}
                ELSE {Str(<<"[">> \o c \o <<"]">>) :
                        c \in Concats([i \in 1..Len(l) |->
                                         {e.val : e \in parts[i]}])}
      [] expr.kind = "Obj" ->
            LET o == expr.val
            IN  IF Cardinality(Keys(o)) = 0 THEN {Str(<<"{", "}">>)}
                ELSE IF \E k \in Keys(o) :
                          Panic \in to_str(o[k]) \/ from_qobj_key(k) = Panic
                THEN {Panic}
                ELSE UNION {
                       {Str(<<"{", " ">> \o c \o <<" ", "}">>) :
                          c \in Concats([i \in 1..Len(ord) |->
                                 {EntryText(ord[i], e.val) :
                                    e \in to_str(o[ord[i]])}])} :
                       ord \in Orders(Keys(o))}
      [] OTHER -> {expr}

into(lhs, rhs) ==
    IF like(lhs, rhs) = Bool(TRUE)
    THEN {lhs}
    ELSE CASE rhs.kind = "Void"   -> {Void}
           [] rhs.kind = "Err"    -> {Err}
           [] rhs.kind = "Func"   -> {Err}
           [] rhs.kind = "Thread" -> {Err}
           [] rhs.kind = "Int"    -> {to_int(lhs)}
           [] rhs.kind = "Float"  -> {to_float(lhs)}
           [] rhs.kind = "Bool"   -> {to_bool(lhs)}
           [] rhs.kind = "Str"    -> to_str(lhs)
           [] rhs.kind = "List"   -> to_list(lhs)
           [] rhs.kind = "Obj"    -> {to_obj(lhs)}

----------------------------------------------------------------------------
(* Operators *)

add(lhs, rhs) ==
    CASE lhs.kind = "Int"   /\ rhs.kind = "Int"   -> IntV(Wrap(lhs.val + rhs.val))
      [] lhs.kind = "Float" /\ rhs.kind = "Float" -> Float(FAdd(lhs.val, rhs.val))
      [] lhs.kind = "Str"   /\ rhs.kind = "Str"   -> Str(lhs.val \o rhs.val)
      [] lhs.kind = "List"  /\ rhs.kind = "List"  -> List(lhs.val \o rhs.val)
      [] lhs.kind = "Obj"   /\ rhs.kind = "Obj"   -> Obj(Extend(lhs.val, rhs.val))
      [] OTHER -> Err

\* a sub that widens an Int beside a Float
sub_widening(lhs, rhs) ==
    CASE lhs.kind = "Int"   /\ rhs.kind = "Int"   -> IntV(Wrap(lhs.val - rhs.val))
      [] lhs.kind = "Float" /\ rhs.kind = "Float" -> Float(FSub(lhs.val, rhs.val))
      [] lhs.kind = "Int"   /\ rhs.kind = "Float" ->
            Float(FSub(<<lhs.val, 1>>, rhs.val))
      [] OTHER -> Err

sub(lhs, rhs) ==
    CASE lhs.kind = "Int"   /\ rhs.kind = "Int"   -> IntV(Wrap(lhs.val - rhs.val))
      [] lhs.kind = "Float" /\ rhs.kind = "Float" -> Float(FSub(lhs.val, rhs.val))
      [] OTHER -> Err

mul(lhs, rhs) ==
    CASE lhs.kind = "Int"   /\ rhs.kind = "Int"   -> IntV(Wrap(lhs.val * rhs.val))
      [] lhs.kind = "Float" /\ rhs.kind = "Float" -> Float(FMul(lhs.val, rhs.val))
      [] OTHER -> Err

\* i64::wrapping_div: panics when the divisor is zero
wrapping_div(l, r) == IF r = 0 THEN Panic ELSE IntV(Wrap(TruncDiv(l, r)))

\* i64::wrapping_rem: panics when the divisor is zero
wrapping_rem(l, r) == IF r = 0 THEN Panic ELSE IntV(Wrap(TruncRem(l, r)))

div(lhs, rhs) ==
    CASE lhs.kind = "Int"   /\ rhs.kind = "Int"   -> wrapping_div(lhs.val, rhs.val)
      [] lhs.kind = "Float" /\ rhs.kind = "Float" -> Float(FDiv(lhs.val, rhs.val))
      [] OTHER -> Err

modulo(lhs, rhs) ==
    CASE lhs.kind = "Int"   /\ rhs.kind = "Int"   -> wrapping_rem(lhs.val, rhs.val)
      [] lhs.kind = "Float" /\ rhs.kind = "Float" -> Float(FRem(lhs.val, rhs.val))
      [] OTHER -> Err

and(lhs, rhs) ==
    CASE lhs.kind = "Int"  /\ rhs.kind = "Int"  -> IntV(Bitwise("and", lhs.val, rhs.val))
      [] lhs.kind = "Bool" /\ rhs.kind = "Bool" -> Bool(lhs.val /\ rhs.val)
      [] OTHER -> Err

or(lhs, rhs) ==
    CASE lhs.kind = "Int"  /\ rhs.kind = "Int"  -> IntV(Bitwise("or", lhs.val, rhs.val))
      [] lhs.kind = "Bool" /\ rhs.kind = "Bool" -> Bool(lhs.val \/ rhs.val)
      [] OTHER -> Err

xor(lhs, rhs) ==
    CASE lhs.kind = "Int"  /\ rhs.kind = "Int"  -> IntV(Bitwise("xor", lhs.val, rhs.val))
      [] lhs.kind = "Bool" /\ rhs.kind = "Bool" -> Bool(lhs.val # rhs.val)
      [] OTHER -> Err

not(expr) ==
    CASE expr.kind = "Int"  -> IntV(-expr.val - 1)
      [] expr.kind = "Bool" -> Bool(~expr.val)
      [] OTHER -> Err

\* an index whose List positions count from one
index_from_one(lhs, rhs) ==
    CASE lhs.kind = "List" ->
            IF rhs.kind = "Int" /\ rhs.val >= 1 /\ rhs.val <= Len(lhs.val)
            THEN lhs.val[rhs.val]
            ELSE Err
      [] lhs.kind = "Obj" ->
            LET key == to_qobj_key(rhs)
            IN  IF ~key.ok THEN Panic
                ELSE LET v == Get(lhs.val, key.key)
                     IN  IF v # None THEN v[1] ELSE Err
      [] OTHER -> Err

index(lhs, rhs) ==
    CASE lhs.kind = "List" ->
            IF rhs.kind = "Int" /\ rhs.val >= 0
            THEN LET e == IF rhs.val < Len(lhs.val)
                          THEN Some(lhs.val[rhs.val + 1]) ELSE None
                 IN  IF e # None THEN e[1] ELSE Err
            ELSE Err
      [] lhs.kind = "Obj" ->
            LET key == to_qobj_key(rhs)
            IN  IF ~key.ok THEN Panic
                ELSE LET v == Get(lhs.val, key.key)
                     IN  IF v # None THEN v[1] ELSE Err
      [] OTHER -> Err

RECURSIVE eq(_, _)
RECURSIVE EqZip(_, _, _)

\* the loop of eq over l.into_iter().zip(r), from position i on
EqZip(l, r, i) ==
    IF i > Len(l) THEN Bool(TRUE)
    ELSE LET e == eq(l[i], r[i])
         IN  IF e = Panic THEN Panic
             ELSE IF e = Bool(FALSE) THEN Bool(FALSE)
             ELSE EqZip(l, r, i + 1)

eq(lhs, rhs) ==
    CASE lhs.kind = "Int"   /\ rhs.kind = "Int"   -> Bool(lhs.val = rhs.val)
      [] lhs.kind = "Float" /\ rhs.kind = "Float" -> Bool(FEq(lhs.val, rhs.val))
      [] lhs.kind = "Bool"  /\ rhs.kind = "Bool"  -> Bool(lhs.val = rhs.val)
      [] lhs.kind = "Str"   /\ rhs.kind = "Str"   -> Bool(lhs.val = rhs.val)
      [] lhs.kind = "Void"  /\ rhs.kind = "Void"  -> Bool(TRUE)
      [] lhs.kind = "Err"   /\ rhs.kind = "Err"   -> Bool(TRUE)
      [] lhs.kind = "List"  /\ rhs.kind = "List"  ->
            IF Len(lhs.val) = Len(rhs.val)
            THEN EqZip(lhs.val, rhs.val, 1)
            ELSE Bool(FALSE)
      [] lhs.kind = "Obj"   /\ rhs.kind = "Obj"   -> Panic
      [] lhs.kind = "Thread" /\ rhs.kind = "Thread" ->
            IF lhs.val # None /\ rhs.val # None
            THEN Bool(lhs.val[1] = rhs.val[1])
            ELSE IF lhs.val = None /\ rhs.val = None THEN Bool(TRUE)
            ELSE Panic
      [] lhs.kind = "Func"  /\ rhs.kind = "Func"  -> Bool(FALSE)
      [] OTHER -> Bool(FALSE)

ne(lhs, rhs) ==
    LET e == eq(lhs, rhs)
    IN  IF e = Panic THEN Panic ELSE Bool(~e.val)

----------------------------------------------------------------------------
(* QInterp: the environment *)

NameChars == <<"a", "b", "c", "d">>
Names == {<<NameChars[i]>> : i \in 1..MaxNames}
StoreVals == {IntV(1), Bool(TRUE), Str(<<"a">>)}

\* QInterp::init()
Init ==
    /\ globals = EmptyObj
    /\ locals = <<EmptyObj>>
    /\ fault = FALSE
    /\ lastStored = [n \in Names |-> None]
    /\ fn = "none"
    /\ args = <<>>
    /\ mid = Void
    /\ ret = Void

store_global(name, value) ==
    /\ ~fault
    /\ globals' = Insert(globals, name, value)
    /\ lastStored' = [lastStored EXCEPT ![name] = Some(value)]
    /\ fn' = "store_global"
    /\ args' = <<name, value>>
    /\ ret' = Void
    /\ UNCHANGED <<locals, fault, mid>>

\* the Option<QType> that fetch_global returns on the table g
Fetched(g, name) ==
    LET val == Get(g, name)
    IN  IF val # None THEN Some(val[1]) ELSE None

fetch_global(name) ==
    /\ ~fault
    /\ fn' = "fetch_global"
    /\ args' = <<name>>
    /\ ret' = Fetched(globals, name)
    /\ UNCHANGED <<globals, locals, fault, lastStored, mid>>

\* a store_local that writes the binding into the global table
store_local_into_globals(name, value) ==
    /\ ~fault
    /\ fn' = "store_local"
    /\ args' = <<name, value>>
    /\ globals' = Insert(globals, name, value)
    /\ ret' = Void
    /\ UNCHANGED <<locals, fault, lastStored, mid>>

\* a store_local that starts the top frame afresh
StoreLocalFrames_fresh(ls, name, value) ==
    IF Len(ls) = 0 THEN Panic
    ELSE [ls EXCEPT ![Len(ls)] = Insert(EmptyObj, name, value)]

\* locals after store_local; Panic when there is no frame (len()-1 underflows,
\* or get_mut gives None and unreachable!() is reached)
StoreLocalFrames(ls, name, value) ==
    IF Len(ls) = 0 THEN Panic
    ELSE LET last == Len(ls) - 1
         IN  [ls EXCEPT ![last + 1] = Insert(ls[last + 1], name, value)]

store_local(name, value) ==
    /\ ~fault
    /\ fn' = "store_local"
    /\ args' = <<name, value>>
    /\ LET out == StoreLocalFrames(locals, name, value)
       IN  IF out = Panic
           THEN /\ fault' = TRUE
                /\ ret' = Panic
                /\ UNCHANGED locals
           ELSE /\ locals' = out
                /\ ret' = Void
                /\ UNCHANGED fault
    /\ UNCHANGED <<globals, lastStored, mid>>

Next ==
    \/ \E name \in Names, value \in StoreVals : store_global(name, value)
    \/ \E name \in Names : fetch_global(name)
    \/ \E name \in Names, value \in StoreVals : store_local(name, value)

Spec == Init /\ [][Next]_vars

----------------------------------------------------------------------------
(* Calls of the pure functions of QType.  The initial state holds the      *)
(* arguments drawn for the call; each action is one call on them.          *)

\* the state before a call on the arguments a
Drawn(a) ==
    /\ globals = EmptyObj
    /\ locals = <<EmptyObj>>
    /\ fault = FALSE
    /\ lastStored = [n \in Names |-> None]
    /\ fn = "none"
    /\ args = a
    /\ mid = Void
    /\ ret = Void

\* the call f on the drawn arguments returns r
Call(f, r) ==
    /\ fn = "none"
    /\ fn' = f
    /\ ret' = r
    /\ UNCHANGED <<globals, locals, fault, lastStored, args, mid>>

\* all sequences over S of length at most n
SeqsUpTo(S, n) == UNION {[1..k -> S] : k \in 0..n}

\* all maps from a subset of the keys K to values of V
Maps(K, V) == UNION {[D -> V] : D \in SUBSET K}

(* -- the arithmetic, bitwise and logical operators -- *)

OpInts == {MinInt, -1, 0, 1, 2, MaxInt}
OpObjs == Maps({<<"$", "a">>, <<"0">>, <<"$", "0">>}, {IntV(1), IntV(2)})
OpVals ==
    {IntV(i) : i \in OpInts}
    \cup {Float(f) : f \in {Zero, <<1, 1>>, <<-1, 2>>, NaN}}
    \cup {Bool(TRUE), Bool(FALSE)}
    \cup {Str(s) : s \in SeqsUpTo({"a"}, MaxStrLen)}
    \cup {Void, Err}
    \cup {List(l) : l \in SeqsUpTo({IntV(1)}, MaxLen)}
    \cup {Obj(o) : o \in OpObjs}
    \cup {Thread(None)} \cup {Thread(Some(t)) : t \in 0..MaxThread}
    \cup {Func(EmptyObj)}

InitOps == \E l \in OpVals, r \in OpVals : Drawn(<<l, r>>)

CallAdd == Call("add", add(args[1], args[2]))
CallSub == Call("sub", sub(args[1], args[2]))
CallMul == Call("mul", mul(args[1], args[2]))
CallDiv == Call("div", div(args[1], args[2]))
CallModulo == Call("modulo", modulo(args[1], args[2]))
CallAnd == Call("and", and(args[1], args[2]))
CallOr == Call("or", or(args[1], args[2]))
CallXor == Call("xor", xor(args[1], args[2]))
CallNot == Call("not", not(args[1]))

NextOps ==
    \/ CallAdd
    \/ CallSub
    \/ CallMul
    \/ CallDiv
    \/ CallModulo
    \/ CallAnd
    \/ CallOr
    \/ CallXor
    \/ CallNot

SpecOps == InitOps /\ [][NextOps]_vars

(* -- like and into -- *)

IntoVals ==
    {IntV(i) : i \in {MinInt, 0, 1}}
    \cup {Float(f) : f \in {Zero, <<-3, 2>>, NaN, Inf}}
    \cup {Bool(TRUE), Bool(FALSE)}
    \cup {Str(s) : s \in SeqsUpTo({"1", "-", "."}, MaxStrLen)}
    \cup {Void, Err}
    \cup {List(l) : l \in SeqsUpTo({IntV(1), Void, List(<<>>)}, MaxLen)}
    \cup {Obj(o) : o \in Maps({<<"$", "a">>, <<"0">>, <<"a">>},
                              {IntV(1), Str(<<"a">>)})}
    \cup {Thread(None)} \cup {Thread(Some(t)) : t \in 0..MaxThread}
    \cup {Func(EmptyObj), Func([k \in {<<"$", "a">>} |-> IntV(1)])}

\* the target shapes: every kind, with more than one payload
Shapes ==
    {IntV(0), IntV(1), Float(Zero), Float(NaN), Bool(FALSE), Bool(TRUE),
     Str(<<>>), Str(<<"a">>), Void, Err, List(<<>>), List(<<Void>>),
     Obj(EmptyObj), Obj([k \in {<<"0">>} |-> Void]),
     Thread(None), Thread(Some(MaxThread)),
     Func(EmptyObj), Func([k \in {<<"0">>} |-> Void])}

InitInto == \E l \in IntoVals, r \in Shapes : Drawn(<<l, r>>)

CallLike == Call("like", like(args[1], args[2]))
CallInto == \E r \in into(args[1], args[2]) : Call("into", r)

NextInto ==
    \/ CallLike
    \/ CallInto

SpecInto == InitInto /\ [][NextInto]_vars

(* -- the key codec: to_qobj_key, then from_qobj_key of the key it made -- *)

KeyChars == {"$", "-", "0", "1", "a"}
KeyVals ==
    {IntV(i) : i \in Ints}
    \cup {Str(s) : s \in SeqsUpTo(KeyChars, MaxStrLen)}
    \cup {Void, Bool(TRUE)}

InitCodec == \E k \in KeyVals : Drawn(<<k>>)

Encode ==
    /\ fn = "none"
    /\ fn' = "to_qobj_key"
    /\ mid' = to_qobj_key(args[1])
    /\ ret' = IF to_qobj_key(args[1]).ok THEN Void ELSE Panic
    /\ UNCHANGED <<globals, locals, fault, lastStored, args>>

Decode ==
    /\ fn = "to_qobj_key"
    /\ mid.ok
    /\ fn' = "from_qobj_key"
    /\ ret' = from_qobj_key(mid.key)
    /\ UNCHANGED <<globals, locals, fault, lastStored, args, mid>>

NextCodec ==
    \/ Encode
    \/ Decode

SpecCodec == InitCodec /\ [][NextCodec]_vars

(* -- index, directly and on the Obj that into makes of the container -- *)

IdxElems == {IntV(10), IntV(20), Str(<<"0">>)}
IdxObjs == Maps({<<"0">>, <<"-", "1">>, <<"$", "0">>, <<"$", "a">>},
                {IntV(10), Str(<<"0">>)})
IdxVals ==
    {List(l) : l \in SeqsUpTo(IdxElems, MaxLen)}
    \cup {Obj(o) : o \in IdxObjs}
    \cup {Void, IntV(0), Str(<<"0", "1">>)}
IdxKeys ==
    {IntV(i) : i \in {MinInt, MaxInt} \cup (-1..(MaxLen + 1))}
    \cup {Str(IntText(i)) : i \in -1..MaxLen}
    \cup {Str(<<>>), Str(<<"a">>), Void, Bool(TRUE), Float(<<1, 1>>),
          List(<<>>)}

InitIndex == \E c \in IdxVals, k \in IdxKeys : Drawn(<<c, k>>)

CallIndex == Call("index", index(args[1], args[2]))

IntoObj ==
    /\ fn = "none"
    /\ fn' = "into"
    /\ mid' \in into(args[1], Obj(EmptyObj))
    /\ UNCHANGED <<globals, locals, fault, lastStored, args, ret>>

IndexMade ==
    /\ fn = "into"
    /\ fn' = "into_index"
    /\ ret' = index(mid, args[2])
    /\ UNCHANGED <<globals, locals, fault, lastStored, args, mid>>

NextIndex ==
    \/ CallIndex
    \/ IntoObj
    \/ IndexMade

SpecIndex == InitIndex /\ [][NextIndex]_vars

(* -- eq and ne -- *)

EqElems ==
    {IntV(1), IntV(2), Str(<<"a">>), Obj(EmptyObj), Thread(None),
     Thread(Some(0)), List(<<>>), List(<<IntV(1)>>), List(<<Obj(EmptyObj)>>)}
EqVals ==
    {List(l) : l \in SeqsUpTo(EqElems, MaxLen)} \cup {IntV(1), Void}

InitEq == \E l \in EqVals, r \in EqVals : Drawn(<<l, r>>)

CallEq == Call("eq", eq(args[1], args[2]))
CallNe == Call("ne", ne(args[1], args[2]))

NextEq ==
    \/ CallEq
    \/ CallNe

SpecEq == InitEq /\ [][NextEq]_vars

----------------------------------------------------------------------------
(* Properties of the environment *)

\* C5: after init and any sequence of store_global, store_local and
\* fetch_global calls, fetch_global(name) returns a copy of the value of the
\* most recent store_global(name, _), and nothing if there was none; a
\* store_global on another name, a store_local on any name and fetch_global
\* itself never change what fetch_global(name) returns.
C5_FetchGlobalLatestStore ==
    /\ [](\A n \in Names : Fetched(globals, n) = lastStored[n])
    /\ [](fn = "fetch_global" => ret = lastStored[args[1]])
    /\ [][\A n \in Names :
             \/ fn' = "store_global" /\ args'[1] = n
             \/ Fetched(globals', n) = Fetched(globals, n)]_vars

\* a fetch_global that returns the stored value while the top local frame
\* binds the same name to another value
C5_Witness ==
    /\ fn = "fetch_global"
    /\ ret # None
    /\ args[1] \in DOMAIN locals[1]
    /\ locals[1][args[1]] # ret[1]

\* C10: the local scope stack is never empty: after init it holds exactly one
\* empty frame, every reachable state holds at least one frame and no
\* store_local has reached its fatal path; store_local(name, value) inserts
\* or overwrites only the binding of name in the top frame and leaves every
\* other binding of that frame, the number of frames and globals unchanged.
C10_LocalsNeverEmpty ==
    /\ locals = <<EmptyObj>>
    /\ [](Len(locals) >= 1 /\ ~fault)
    /\ [][fn' = "store_local" =>
             LET name == args'[1]
                 value == args'[2]
                 top == Len(locals)
             IN  /\ Len(locals') = Len(locals)
                 /\ globals' = globals
                 /\ \A i \in 1..(top - 1) : locals'[i] = locals[i]
                 /\ DOMAIN locals'[top] = (DOMAIN locals[top]) \cup {name}
                 /\ locals'[top][name] = value
                 /\ \A k \in (DOMAIN locals[top]) \ {name} :
                        locals'[top][k] = locals[top][k]]_vars

\* a store_local into a frame that keeps another binding, with globals bound
C10_Witness ==
    /\ fn = "store_local"
    /\ Cardinality(DOMAIN locals[Len(locals)]) >= 2
    /\ globals # EmptyObj

----------------------------------------------------------------------------
(* Properties of the operators *)

\* C1: division and modulo by zero on Integers is a defined, non-crashing
\* Error result: for every Integer l, div(Int(l), Int(0)) and
\* modulo(Int(l), Int(0)) return Err and never panic.
C1_DivModByZeroIsErr ==
    (fn \in {"div", "modulo"} /\ args[1].kind = "Int" /\ args[2] = IntV(0))
        => ret = Err

\* the pairings of operand kinds an operator supports
Supported(f, lk, rk) ==
    CASE f = "add" -> lk = rk /\ lk \in {"Int", "Float", "Str", "List", "Obj"}
      [] f \in {"sub", "mul", "div", "modulo"} ->
            lk = rk /\ lk \in {"Int", "Float"}
      [] f \in {"and", "or", "xor"} -> lk = rk /\ lk \in {"Int", "Bool"}
      [] f = "not" -> lk \in {"Int", "Bool"}

\* C2: each of add, sub, mul, div, modulo, and, or, xor returns Err for every
\* pair of operand kinds that is not a supported pairing of that operator,
\* and not returns Err for every operand that is neither Int nor Bool; none
\* of these calls panics.
C2_UnsupportedPairingIsErr ==
    (fn # "none" /\ ~Supported(fn, args[1].kind, args[2].kind)) => ret = Err

\* an Int minus a Float is Err
C2_Witness ==
    /\ fn = "sub"
    /\ args[1].kind = "Int"
    /\ args[2].kind = "Float"
    /\ ret = Err

\* C8: add of two Objects is a right-biased union: the result is an Object
\* whose key set is keys(l) \cup keys(r), every key of r maps to r's value
\* and every key only in l maps to l's value.
C8_AddObjRightBiasedUnion ==
    (fn = "add" /\ args[1].kind = "Obj" /\ args[2].kind = "Obj") =>
        LET l == args[1].val
            r == args[2].val
        IN  /\ ret.kind = "Obj"
            /\ DOMAIN ret.val = (DOMAIN l) \cup (DOMAIN r)
            /\ \A k \in DOMAIN r : ret.val[k] = r[k]
            /\ \A k \in (DOMAIN l) \ (DOMAIN r) : ret.val[k] = l[k]

\* an add of two Objects that collide on a key with different values and
\* have a key each that the other lacks
C8_Witness ==
    /\ fn = "add"
    /\ args[1].kind = "Obj"
    /\ args[2].kind = "Obj"
    /\ \E k \in (DOMAIN args[1].val) \cap (DOMAIN args[2].val) :
          args[1].val[k] # args[2].val[k] /\ ret.val[k] = args[2].val[k]
    /\ (DOMAIN args[1].val) \ (DOMAIN args[2].val) # {}
    /\ (DOMAIN args[2].val) \ (DOMAIN args[1].val) # {}

----------------------------------------------------------------------------
(* Properties of coercion and of the key codec *)

\* C3: identity coercion: for every value v and every target shape of the
\* same kind as v, whatever its payload, into(v, shape) returns v unchanged,
\* for all ten kinds.
C3_IntoSameKindIsIdentity ==
    (fn = "into" /\ args[1].kind = args[2].kind) => ret = args[1]

\* into of a Thread on a Thread shape of another payload returned the Thread
C3_Witness ==
    /\ fn = "into"
    /\ args[1].kind = "Thread"
    /\ args[2].kind = "Thread"
    /\ args[1] # args[2]
    /\ ret = args[1]

\* C4: key codec round trip: for every Integer i and every String s,
\* from_qobj_key(to_qobj_key(Int(i))) is Int(i) and
\* from_qobj_key(to_qobj_key(Str(s))) is Str(s); no Integer key and String
\* key encode to the same mapping key.
C4_KeyCodecRoundTrip ==
    /\ (fn = "from_qobj_key" /\ args[1].kind \in {"Int", "Str"})
          => ret = args[1]
    /\ (fn = "to_qobj_key" /\ args[1].kind = "Int")
          => \A s \in SeqsUpTo(KeyChars, MaxStrLen) :
                to_qobj_key(Str(s)).key # mid.key

\* the round trip of a String of digits behind a '$'
C4_Witness ==
    /\ fn = "from_qobj_key"
    /\ args[1] = Str(<<"$", "1">>)
    /\ ret = args[1]

----------------------------------------------------------------------------
(* Properties of index and eq *)

\* C6: index on a List is bounds-checked: index(List(l), k) is the element
\* at position i when k is Int(i) with 0 <= i < len(l), and Err in every
\* other case (negative Int, Int >= len(l), k of another kind); it never
\* panics.
C6_ListIndexBoundsChecked ==
    (fn = "index" /\ args[1].kind = "List") =>
        LET l == args[1].val
            k == args[2]
        IN  IF k.kind = "Int" /\ 0 <= k.val /\ k.val < Len(l)
            THEN ret = l[k.val + 1]
            ELSE ret = Err

\* index of a two-element List at position 1 gave its second element
C6_Witness ==
    /\ fn = "index"
    /\ args[1].kind = "List"
    /\ Len(args[1].val) = 2
    /\ args[1].val[1] # args[1].val[2]
    /\ args[2] = IntV(1)
    /\ ret = args[1].val[2]

\* the mapping key of an Int or Str index key
KeyText(k) == IF k.kind = "Int" THEN IntText(k.val) ELSE <<"$">> \o k.val

\* C7: index on an Object goes through the key codec: for a key k that is an
\* Int or a Str, index(Obj(o), k) is the value stored under the encoded key
\* when it is present and Err when it is missing; on the Object that
\* into(List(l), Obj) makes, index with Int(i), 0 <= i < len(l), is l[i] and
\* index with Str of the decimal text of i is Err.
C7_ObjIndexThroughCodec ==
    /\ (fn = "index" /\ args[1].kind = "Obj" /\ args[2].kind \in {"Int", "Str"})
          => IF KeyText(args[2]) \in DOMAIN args[1].val
             THEN ret = args[1].val[KeyText(args[2])]
             ELSE ret = Err
    /\ (fn = "into_index" /\ args[1].kind = "List")
          => \A i \in 0..(Len(args[1].val) - 1) :
                /\ args[2] = IntV(i) => ret = args[1].val[i + 1]
                /\ args[2] = Str(IntText(i)) => ret = Err

\* the Object made of a two-element List, indexed with the Str "1"
C7_Witness ==
    /\ fn = "into_index"
    /\ args[1].kind = "List"
    /\ Len(args[1].val) = 2
    /\ mid.kind = "Obj"
    /\ args[2] = Str(<<"1">>)
    /\ ret = Err

\* C9: List equality is pointwise: eq(List(l), List(r)) is Bool(true) exactly
\* when len(l) = len(r) and eq(l[i], r[i]) is Bool(true) at every position i,
\* and Bool(false) otherwise; the result is always a Bool.
C9_ListEqPointwise ==
    (fn = "eq" /\ args[1].kind = "List" /\ args[2].kind = "List") =>
        LET l == args[1].val
            r == args[2].val
        IN  ret = Bool(/\ Len(l) = Len(r)
                       /\ \A i \in 1..Len(l) : eq(l[i], r[i]) = Bool(TRUE))

====
